---- MODULE Spec2Model ----
(***************************************************************************)
(* Offline-first task store with a sync queue.                             *)
(*                                                                         *)
(*   TaskService  (src/src/services/taskService.ts)                        *)
(*       createTask / updateTask / deleteTask / getTask                    *)
(*   SyncService and the POST /sync route  (src/src/routes/sync.ts)        *)
(*       checkConnectivity / sync / processBatch / updateSyncStatus /      *)
(*       handleSyncError / resolveConflict                                 *)
(*                                                                         *)
(* Every `await this.db.run/get/all(...)` and every `await axios...` is a  *)
(* suspension point of the JavaScript event loop, so each handler is cut   *)
(* into one action per awaited statement.  The two tables are `tasks` and  *)
(* `sync_queue`.  The business fields of a task are represented by         *)
(* `title`; `description` and `completed` are written by the same          *)
(* statements in the same way.  The timestamp columns (created_at,         *)
(* updated_at, last_synced_at of tasks) are written but never read by the  *)
(* TaskService operations and by sync(), and are left out of the rows.     *)
(* resolveConflict reads the updated_at of its two arguments; sync() never *)
(* calls it, so it is modelled on its own, applied to every pair of        *)
(* versions.                                                               *)
(***************************************************************************)
EXTENDS Integers, Sequences, FiniteSets, TLC

\* ------------------------------------------------------------------ bounds
\* Number of createTask/updateTask/deleteTask calls that reach their writes.
MaxOps == 3
\* Cap on the retry_count a failing batch send may still increase.
MaxFails == 2
\* Number of mutation calls in the specification with two overlapping requests.
TwoSyncOps == 2
\* The instants (in ms) the updated_at of a version is drawn from: 0..MaxTime.
MaxTime == 3

\* ----------------------------------------------------------- configuration
\* SYNC_BATCH_SIZE (sync.ts:88) and SYNC_MAX_RETRIES (sync.ts:89) as configured
\* through the environment for this deployment.
batchSize == 2
maxRetries == 1

\* ------------------------------------------------------------------ values
None == "none"
\* A JSON null, as distinct from an absent key (None).
Null == "null"
\* The ids uuidv4() hands out: the store holds one record.
TaskIds == {"t1"}
\* taskData.title as createTask is called (None: no title given), and the
\* titles updateTask is called with.
NewTitles == {None}
Titles == {"a"}
ResolvedTitle == "r"
ServerId == "srv"
Mutators == {"m1", "m2"}
Syncers == {"s1", "s2"}
NetworkError == "Network Error"
PeerRejected == "rejected"
\* How axios.get(`${apiUrl}/health`, { timeout: 5000 }) ends.
Probes == {"ok", "error", "timeout"}

Min(a, b) == IF a <= b THEN a ELSE b

VARIABLES
    tasks,      \* table tasks: id -> row (exists = FALSE: no such row)
    queue,      \* table sync_queue: set of rows
    nextQ,      \* number of sync_queue rows inserted so far + 1
    mut,        \* per TaskService caller: position and locals
    syn,        \* per POST /sync request handler: position and locals
    ops,        \* mutation calls that reached their writes
    confirmed,  \* history: ids of entries the peer confirmed
    recWrites,  \* history: record writes applied by the three mutating operations
    conflict,   \* a call of resolveConflict: its arguments and its result
    failedSends \* history: id of an entry in the log -> number of rejected
                \* processBatch calls it was in (no key: none)

vars ==
    <<tasks, queue, nextQ, mut, syn, ops, confirmed, recWrites, conflict, failedSends>>

\* ------------------------------------------------------------------- rows
NoTask ==
    [exists |-> FALSE, title |-> None, is_deleted |-> FALSE, sync_status |-> None,
     server_id |-> None]

IdleMut ==
    [pc |-> "idle", op |-> None, id |-> None, updates |-> None, title |-> None,
     is_deleted |-> FALSE, ret |-> None]

\* resolved_data stands for the business fields of item.resolved_data and
\* resolved_server_id for item.resolved_data.server_id (None: no such key).
NoItem ==
    [client_id |-> None, status |-> None, server_id |-> None, resolved_data |-> None,
     resolved_server_id |-> None, error |-> None]

\* queueItems, i, successCount, failCount, errors: the locals of sync().
\* n: processed_items.length of the response in hand; k: the loop position in
\* processed_items (or in the batch, in the catch block); item: the response
\* item being handled by updateSyncStatus.  probe: how the health probe of this
\* request ended; http: the status the route answers with.
IdleSyn ==
    [pc |-> "idle", queueItems |-> <<>>, i |-> 1, n |-> 0, k |-> 1, item |-> NoItem,
     successCount |-> 0, failCount |-> 0, errors |-> <<>>, http |-> None,
     probe |-> None]

\* The column default of sync_queue.created_at: the time of the insert.  The
\* Mutation Log carries a creation timestamp that preserves insertion order
\* (spec 3 and 4.3), so a later insert gets a later time.
CreatedAtDefault == nextQ

\* A sync_queue row as the INSERTs of taskService.ts create it: id, task_id,
\* operation and data are bound; created_at, retry_count and error_message take
\* the column defaults of the table.
QueueRow(qid, taskId, operation, data) ==
    [id |-> qid, task_id |-> taskId, operation |-> operation, data |-> data,
     created_at |-> CreatedAtDefault, retry_count |-> 0, error_message |-> None]

\* A version of a task as resolveConflict reads it: where it comes from and its
\* updated_at.  updated_at is a Date object or an ISO string denoting the
\* instant ms, or a value that new Date() does not parse ("invalid": Invalid
\* Date, malformed string, undefined).
UpdatedAts ==
    {[kind |-> k, ms |-> t] : k \in {"Date", "string"}, t \in 0..MaxTime}
    \cup {[kind |-> "invalid", ms |-> 0]}

Versions(origin) == {[origin |-> origin, updated_at |-> u] : u \in UpdatedAts}

NoVersion == [origin |-> None, updated_at |-> [kind |-> "invalid", ms |-> 0]]

\* resolveConflict is never called by sync().
NoConflict == [localTask |-> NoVersion, serverTask |-> NoVersion, kept |-> NoVersion]

Init ==
    /\ conflict = NoConflict
    /\ failedSends = [id \in {} |-> 0]
    /\ tasks = [t \in TaskIds |-> NoTask]
    /\ queue = {}
    /\ nextQ = 1
    /\ mut = [m \in Mutators |-> IdleMut]
    /\ syn = [p \in Syncers |-> IdleSyn]
    /\ ops = 0
    /\ confirmed = {}
    /\ recWrites = 0

\* --------------------------------------------------------------- TaskService
\* uuidv4(): an id no row has.
FreshIds == {t \in TaskIds : ~tasks[t].exists}
uuidv4 == CHOOSE t \in FreshIds : TRUE

\* getTask without the is_deleted test.
getTaskWithDeleted(id) == IF ~tasks[id].exists THEN None ELSE id

\* getTask: the row, or None when it is missing or soft-deleted.
getTask(id) ==
    IF ~tasks[id].exists THEN None
    ELSE IF tasks[id].is_deleted THEN None
    ELSE id

\* createTask up to its first await: build the task and INSERT INTO tasks.
CreateTask(m, title) ==
    /\ mut[m].pc = "idle"
    /\ ops < MaxOps
    /\ FreshIds # {}
    /\ LET id == uuidv4
           t == IF title = None THEN "Untitled" ELSE title
       IN /\ tasks' = [tasks EXCEPT ![id] =
                [exists |-> TRUE, title |-> t, is_deleted |-> FALSE,
                 sync_status |-> "pending", server_id |-> None]]
          /\ mut' = [mut EXCEPT ![m] =
                [IdleMut EXCEPT !.pc = "c_queue", !.op = "create", !.id = id,
                                !.title = t]]
    /\ ops' = ops + 1
    /\ recWrites' = recWrites + 1
    /\ UNCHANGED <<conflict, failedSends, queue, nextQ, syn, confirmed>>

\* createTask, second statement: INSERT INTO sync_queue, then return task.
CreateEnqueue(m) ==
    /\ mut[m].pc = "c_queue"
    /\ queue' = queue \cup {QueueRow(nextQ, mut[m].id, "create", mut[m].title)}
    /\ nextQ' = nextQ + 1
    /\ mut' = [mut EXCEPT ![m] = [IdleMut EXCEPT !.pc = "return", !.ret = "task"]]
    /\ UNCHANGED <<conflict, failedSends, tasks, syn, ops, confirmed, recWrites>>

\* updateTask: getTask, then merge `updates` over the row that was read.
UpdateTask(m, id, updates) ==
    /\ mut[m].pc = "idle"
    /\ ops < MaxOps
    /\ IF getTask(id) = None
       THEN /\ mut' = [mut EXCEPT ![m] =
                  [IdleMut EXCEPT !.pc = "return", !.op = "update", !.id = id,
                                  !.ret = "null"]]
            /\ UNCHANGED ops
       ELSE /\ ops' = ops + 1
            /\ mut' = [mut EXCEPT ![m] =
                  [IdleMut EXCEPT !.pc = "u_write", !.op = "update", !.id = id,
                       !.updates = updates,
                       !.title = IF updates = None THEN tasks[id].title ELSE updates,
                       !.is_deleted = tasks[id].is_deleted]]
    /\ UNCHANGED <<conflict, failedSends, tasks, queue, nextQ, syn, confirmed, recWrites>>

\* updateTask: UPDATE tasks SET title, ..., is_deleted, sync_status WHERE id.
UpdateWrite(m) ==
    /\ mut[m].pc = "u_write"
    /\ tasks' = [tasks EXCEPT ![mut[m].id] =
          [@ EXCEPT !.title = mut[m].title, !.is_deleted = mut[m].is_deleted,
                    !.sync_status = "pending"]]
    /\ mut' = [mut EXCEPT ![m].pc = "u_queue"]
    /\ recWrites' = recWrites + 1
    /\ UNCHANGED <<conflict, failedSends, queue, nextQ, syn, ops, confirmed>>

\* updateTask: INSERT INTO sync_queue (..., 'update', JSON.stringify(updates)).
UpdateEnqueue(m) ==
    /\ mut[m].pc = "u_queue"
    /\ queue' = queue \cup {QueueRow(nextQ, mut[m].id, "update", mut[m].updates)}
    /\ nextQ' = nextQ + 1
    /\ mut' = [mut EXCEPT ![m] = [IdleMut EXCEPT !.pc = "return", !.ret = "task"]]
    /\ UNCHANGED <<conflict, failedSends, tasks, syn, ops, confirmed, recWrites>>

\* deleteTask: getTask, return false when there is no live row.
DeleteTask(m, id) ==
    /\ mut[m].pc = "idle"
    /\ ops < MaxOps
    /\ IF getTask(id) = None
       THEN /\ mut' = [mut EXCEPT ![m] =
                  [IdleMut EXCEPT !.pc = "return", !.op = "delete", !.id = id,
                                  !.ret = "false"]]
            /\ UNCHANGED ops
       ELSE /\ ops' = ops + 1
            /\ mut' = [mut EXCEPT ![m] =
                  [IdleMut EXCEPT !.pc = "d_write", !.op = "delete", !.id = id]]
    /\ UNCHANGED <<conflict, failedSends, tasks, queue, nextQ, syn, confirmed, recWrites>>

\* deleteTask: UPDATE tasks SET is_deleted = 1, updated_at, sync_status WHERE id.
DeleteWrite(m) ==
    /\ mut[m].pc = "d_write"
    /\ tasks' = [tasks EXCEPT ![mut[m].id] =
          [@ EXCEPT !.is_deleted = TRUE, !.sync_status = "pending"]]
    /\ mut' = [mut EXCEPT ![m].pc = "d_queue"]
    /\ recWrites' = recWrites + 1
    /\ UNCHANGED <<conflict, failedSends, queue, nextQ, syn, ops, confirmed>>

\* deleteTask: INSERT INTO sync_queue (..., 'delete', '{}'), then return true.
DeleteEnqueue(m) ==
    /\ mut[m].pc = "d_queue"
    /\ queue' = queue \cup {QueueRow(nextQ, mut[m].id, "delete", None)}
    /\ nextQ' = nextQ + 1
    /\ mut' = [mut EXCEPT ![m] = [IdleMut EXCEPT !.pc = "return", !.ret = "true"]]
    /\ UNCHANGED <<conflict, failedSends, tasks, syn, ops, confirmed, recWrites>>

\* The promise of createTask/updateTask/deleteTask resolves: the caller has `ret`.
Return(m) ==
    /\ mut[m].pc = "return"
    /\ mut' = [mut EXCEPT ![m] = IdleMut]
    /\ UNCHANGED <<conflict, failedSends, tasks, queue, nextQ, syn, ops, confirmed, recWrites>>

\* --------------------------------------------------------------- SyncService
\* ORDER BY created_at ASC over a set of rows.
RECURSIVE SortByCreated(_)
SortByCreated(rows) ==
    IF rows = {} THEN <<>>
    ELSE LET first == CHOOSE e \in rows : \A f \in rows : e.created_at <= f.created_at
         IN <<first>> \o SortByCreated(rows \ {first})

\* ORDER BY created_at DESC: the read with the sort direction wrong.
RECURSIVE SortByCreatedDesc(_)
SortByCreatedDesc(rows) ==
    IF rows = {} THEN <<>>
    ELSE LET last == CHOOSE e \in rows : \A f \in rows : e.created_at >= f.created_at
         IN <<last>> \o SortByCreatedDesc(rows \ {last})

ReadQueueDescending(rows) == SortByCreatedDesc(rows)

\* sync(), line 100: SELECT * FROM sync_queue ORDER BY created_at ASC.
ReadQueue(rows) == SortByCreated(rows)

\* queueItems.slice(i, i + batchSize), with i counted from 1.
Batch(s) == SubSeq(s.queueItems, s.i, Min(s.i + batchSize - 1, Len(s.queueItems)))

SeqIds(q) == [n \in 1..Len(q) |-> q[n].id]
SeqSet(q) == {q[n] : n \in 1..Len(q)}

\* One element of processed_items of the peer's BatchSyncResponse.  The peer is
\* opaque: any client_id, any status, with or without server_id / resolved_data;
\* resolved_data is a Task and may carry a server_id of its own (here: null).
ResponseItems ==
    {[client_id |-> c, status |-> "success", server_id |-> ServerId,
      resolved_data |-> ResolvedTitle, resolved_server_id |-> None,
      error |-> None] : c \in TaskIds}
    \cup
    {[client_id |-> c, status |-> "success", server_id |-> ServerId,
      resolved_data |-> ResolvedTitle, resolved_server_id |-> Null,
      error |-> None] : c \in TaskIds}
    \cup
    {[client_id |-> c, status |-> "success", server_id |-> None,
      resolved_data |-> None, resolved_server_id |-> None,
      error |-> None] : c \in TaskIds}
    \cup
    {[client_id |-> c, status |-> "conflict", server_id |-> ServerId,
      resolved_data |-> ResolvedTitle, resolved_server_id |-> None,
      error |-> None] : c \in TaskIds}
    \cup
    {[client_id |-> c, status |-> "conflict", server_id |-> None,
      resolved_data |-> None, resolved_server_id |-> None,
      error |-> None] : c \in TaskIds}
    \cup
    {[client_id |-> c, status |-> "error", server_id |-> None,
      resolved_data |-> None, resolved_server_id |-> None,
      error |-> PeerRejected] : c \in TaskIds}

\* sync(), lines 114-117 and 120-123: { server_id: item.server_id,
\* ...item.resolved_data }.  A key of resolved_data replaces the one written
\* before the spread.
ServerData(item) ==
    [server_id |-> IF item.resolved_data # None /\ item.resolved_server_id # None
                   THEN item.resolved_server_id
                   ELSE item.server_id,
     title |-> item.resolved_data]

\* sync(), lines 112 and 118: the outcomes handled as synced.
Accepted(item) ==
    \/ item.status = "success"
    \/ item.status = "conflict" /\ item.resolved_data # None

\* The entries of a sent batch that an accepted response item answers: the code
\* reads client_id as the task id.
ConfirmedBy(batch, item) ==
    IF Accepted(item)
    THEN {e.id : e \in {b \in SeqSet(batch) : b.task_id = item.client_id}}
    ELSE {}

\* The for-loop header of sync() after a batch: send the next batch (the
\* continuation runs up to the await of axios.post) or fall through to return.
NextBatch(s) ==
    LET j == s.i + batchSize
        t == [s EXCEPT !.i = j, !.n = 0, !.k = 1, !.item = NoItem]
    IN IF j <= Len(s.queueItems) THEN [t EXCEPT !.pc = "await"]
                                 ELSE [t EXCEPT !.pc = "reply", !.http = "200"]

\* After the k-th element of a list of length n: the next element, or the next batch.
Advance(s, n, pc) ==
    IF s.k < n THEN [s EXCEPT !.k = s.k + 1, !.item = NoItem, !.pc = pc]
    ELSE NextBatch(s)

\* checkConnectivity with the rejection of axios.get left uncaught.
checkConnectivityNoCatch(probe) == IF probe = "ok" THEN "true" ELSE "throw"

\* checkConnectivity, lines 267-277: true when the probe resolves, false from
\* the catch block otherwise.
checkConnectivity(probe) == IF probe = "ok" THEN "true" ELSE "false"

\* POST /sync, lines 17-26: await checkConnectivity(); 503 when it returned
\* false, 500 from the route's catch when it threw, sync() otherwise.
CheckConnectivity(p, probe) ==
    /\ syn[p].pc = "idle"
    /\ LET online == checkConnectivity(probe)
           s == [IdleSyn EXCEPT !.probe = probe]
       IN syn' = [syn EXCEPT ![p] =
            CASE online = "true" -> [s EXCEPT !.pc = "sync"]
              [] online = "false" -> [s EXCEPT !.pc = "reply", !.http = "503"]
              [] online = "throw" -> [s EXCEPT !.pc = "reply", !.http = "500"]]
    /\ UNCHANGED <<conflict, failedSends, tasks, queue, nextQ, mut, ops, confirmed, recWrites>>

\* sync(), lines 100-109: read the queue, then send the first batch if any.
SyncRead(p) ==
    /\ syn[p].pc = "sync"
    /\ LET q == ReadQueue(queue)
           s == [syn[p] EXCEPT !.queueItems = q, !.i = 1]
       IN syn' = [syn EXCEPT ![p] =
            IF Len(q) = 0 THEN [s EXCEPT !.pc = "reply", !.http = "200"]
            ELSE [s EXCEPT !.pc = "await"]]
    /\ UNCHANGED <<conflict, failedSends, tasks, queue, nextQ, mut, ops, confirmed, recWrites>>

\* processBatch resolves with the peer's response; n is the length of its
\* processed_items.  The loop reads the items one at a time, so the content of
\* an item is drawn when the loop reaches it (ProcessItem).
PeerRespond(p, n) ==
    /\ syn[p].pc = "await"
    /\ n \in 0..Len(Batch(syn[p]))
    /\ syn' = [syn EXCEPT ![p] =
          IF n = 0 THEN NextBatch(@) ELSE [@ EXCEPT !.n = n, !.k = 1, !.pc = "items"]]
    /\ UNCHANGED <<conflict, failedSends, tasks, queue, nextQ, mut, ops, confirmed, recWrites>>

\* The number of rejected sends the entry `id` was part of.
FailedSendsOf(id) == IF id \in DOMAIN failedSends THEN failedSends[id] ELSE 0

\* One more rejected send for every entry of the batch that is in the log.
CountFailedSend(batch) ==
    LET ids == {e.id : e \in SeqSet(batch)} \cap {e.id : e \in queue}
    IN [id \in DOMAIN failedSends \cup ids |->
            FailedSendsOf(id) + IF id \in ids THEN 1 ELSE 0]

\* The history of the entries that are rows of `rows`.
ForgetDeleted(rows) ==
    [id \in DOMAIN failedSends \cap {e.id : e \in rows} |-> failedSends[id]]

\* sync() without its try/catch: the rejection leaves sync() and the route's
\* catch answers 500.
SendFailUncaught(p) ==
    /\ syn[p].pc = "await"
    /\ \A e \in SeqSet(Batch(syn[p])) : e.retry_count < MaxFails
    /\ syn' = [syn EXCEPT ![p] = [@ EXCEPT !.pc = "reply", !.http = "500"]]
    /\ failedSends' = CountFailedSend(Batch(syn[p]))
    /\ UNCHANGED <<conflict, tasks, queue, nextQ, mut, ops, confirmed, recWrites>>

\* processBatch rejects (transport error, timeout, non-2xx).
SendFail(p) ==
    /\ syn[p].pc = "await"
    /\ \A e \in SeqSet(Batch(syn[p])) : e.retry_count < MaxFails
    /\ syn' = [syn EXCEPT ![p] = [@ EXCEPT !.k = 1, !.pc = "fail"]]
    /\ failedSends' = CountFailedSend(Batch(syn[p]))
    /\ UNCHANGED <<conflict, tasks, queue, nextQ, mut, ops, confirmed, recWrites>>

\* updateSyncStatus called without serverData.
NoServerData == [server_id |-> None, title |-> None]

\* updateSyncStatus, lines 226-231: UPDATE tasks SET sync_status, server_id =
\* COALESCE(?, server_id), last_synced_at WHERE id, bound to
\* serverData?.server_id || null.  No other key of serverData is used.
UpdateStatusRow(rows, taskId, status, serverData) ==
    IF ~rows[taskId].exists THEN rows
    ELSE [rows EXCEPT ![taskId] =
            [@ EXCEPT !.sync_status = status,
                      !.server_id = IF serverData.server_id \in {None, Null}
                                    THEN @ ELSE serverData.server_id]]

\* sync(), lines 111-133: dispatch one response item, up to the first await of
\* updateSyncStatus.
ProcessItem(p, item) ==
    /\ syn[p].pc = "items"
    /\ item \in ResponseItems
    /\ confirmed' = confirmed \cup ConfirmedBy(Batch(syn[p]), item)
    /\ LET s == syn[p]
       IN IF Accepted(item)
          THEN /\ tasks' = UpdateStatusRow(tasks, item.client_id, "synced", ServerData(item))
               /\ syn' = [syn EXCEPT ![p] =
                     [s EXCEPT !.successCount = @ + 1, !.item = item, !.pc = "delete"]]
          ELSE /\ tasks' = UpdateStatusRow(tasks, item.client_id, "error", NoServerData)
               /\ syn' = [syn EXCEPT ![p] =
                     Advance([s EXCEPT !.failCount = @ + 1,
                                !.errors = Append(@,
                                    [task_id |-> item.client_id, operation |-> "sync",
                                     error |-> IF item.error = None
                                               THEN "Unknown sync error"
                                               ELSE item.error])],
                             s.n, "items")]
    /\ UNCHANGED <<conflict, failedSends, queue, nextQ, mut, ops, recWrites>>

\* updateSyncStatus with the DELETE matching no row.
DeleteFromQueueNoMatch(rows, taskId) == rows

\* updateSyncStatus, line 234: DELETE FROM sync_queue WHERE task_id = ?.
DeleteFromQueue(rows, taskId) == {e \in rows : e.task_id # taskId}

\* updateSyncStatus, lines 233-235, for status 'synced'.
DeleteSynced(p) ==
    /\ syn[p].pc = "delete"
    /\ LET s == syn[p]
       IN /\ queue' = DeleteFromQueue(queue, s.item.client_id)
          /\ failedSends' = ForgetDeleted(DeleteFromQueue(queue, s.item.client_id))
          /\ syn' = [syn EXCEPT ![p] = Advance(s, s.n, "items")]
    /\ UNCHANGED <<conflict, tasks, nextQ, mut, ops, confirmed, recWrites>>

\* The UPDATE of handleSyncError storing the message and not the count.
SetRetryMessageOnly(rows, item, message) ==
    {IF e.id = item.id THEN [e EXCEPT !.error_message = message] ELSE e : e \in rows}

\* handleSyncError, lines 250-262: UPDATE sync_queue SET retry_count,
\* error_message WHERE id.
SetRetry(rows, item, message) ==
    {IF e.id = item.id
     THEN [e EXCEPT !.retry_count = item.retry_count + 1, !.error_message = message]
     ELSE e : e \in rows}

\* sync(), lines 136-145 and handleSyncError up to its first await.
HandleSyncError(p) ==
    /\ syn[p].pc = "fail"
    /\ LET s == syn[p]
           item == Batch(s)[s.k]
           t == [s EXCEPT !.failCount = @ + 1,
                    !.errors = Append(@,
                        [task_id |-> item.task_id, operation |-> item.operation,
                         error |-> NetworkError])]
       IN IF item.retry_count + 1 > maxRetries
          THEN /\ tasks' = [tasks EXCEPT ![item.task_id].sync_status = "error"]
               /\ syn' = [syn EXCEPT ![p] = [t EXCEPT !.pc = "retry"]]
               /\ UNCHANGED queue
          ELSE /\ queue' = SetRetry(queue, item, NetworkError)
               /\ syn' = [syn EXCEPT ![p] = Advance(t, Len(Batch(s)), "fail")]
               /\ UNCHANGED tasks
    /\ UNCHANGED <<conflict, failedSends, nextQ, mut, ops, confirmed, recWrites>>

\* handleSyncError, lines 250-255: the retry count write after the status write.
PersistRetry(p) ==
    /\ syn[p].pc = "retry"
    /\ LET s == syn[p]
       IN /\ queue' = SetRetry(queue, Batch(s)[s.k], NetworkError)
          /\ syn' = [syn EXCEPT ![p] = Advance(s, Len(Batch(s)), "fail")]
    /\ UNCHANGED <<conflict, failedSends, tasks, nextQ, mut, ops, confirmed, recWrites>>

\* A request is inside sync(), between its queue read and its return.
InRun(p) == syn[p].pc \in {"await", "items", "delete", "fail", "retry"}

\* The entries the run of `s` has handed to processBatch so far, in the order sent.
SentEntries(s) == SubSeq(s.queueItems, 1, Min(s.i + batchSize - 1, Len(s.queueItems)))

\* The result with success reporting that something was synced.
SyncResultSuccessWhenSynced(s) ==
    [success |-> s.successCount > 0, synced_items |-> s.successCount,
     failed_items |-> s.failCount, errors |-> s.errors]

\* sync(), lines 149-154: the SyncResult of a finished run.
SyncResult(s) ==
    [success |-> s.failCount = 0, synced_items |-> s.successCount,
     failed_items |-> s.failCount, errors |-> s.errors]

\* POST /sync, lines 20 and 23: the reply (503, or the SyncResult) is written
\* and the request is over.
Respond(p) ==
    /\ syn[p].pc = "reply"
    /\ syn' = [syn EXCEPT ![p] = IdleSyn]
    /\ UNCHANGED <<conflict, failedSends, tasks, queue, nextQ, mut, ops, confirmed, recWrites>>

\* --------------------------------------------------------- resolveConflict
\* new Date(x).getTime(): the instant in ms, NaN when x does not parse.
getTime(updated_at) ==
    IF updated_at.kind = "invalid" THEN [nan |-> TRUE, ms |-> 0]
    ELSE [nan |-> FALSE, ms |-> updated_at.ms]

\* a >= b on numbers: false when either is NaN.
GreaterOrEqual(a, b) == ~a.nan /\ ~b.nan /\ a.ms >= b.ms

\* a > b on numbers.
Greater(a, b) == ~a.nan /\ ~b.nan /\ a.ms > b.ms

\* The comparator with > in place of >=.
resolveConflictStrict(localTask, serverTask) ==
    IF Greater(getTime(localTask.updated_at), getTime(serverTask.updated_at))
    THEN localTask ELSE serverTask

\* resolveConflict, lines 206-216: localTime >= serverTime ? localTask : serverTask.
resolveConflict(localTask, serverTask) ==
    IF GreaterOrEqual(getTime(localTask.updated_at), getTime(serverTask.updated_at))
    THEN localTask ELSE serverTask

\* A call of resolveConflict on the two versions at hand.
ResolveConflict ==
    /\ conflict.localTask # NoVersion
    /\ conflict.kept = NoVersion
    /\ conflict' = [conflict EXCEPT
          !.kept = resolveConflict(conflict.localTask, conflict.serverTask)]
    /\ UNCHANGED <<tasks, queue, nextQ, mut, syn, ops, confirmed, recWrites, failedSends>>

\* ------------------------------------------------------------ specifications
Quiet ==
    /\ \A m \in Mutators : mut[m].pc = "idle"
    /\ \A p \in Syncers : syn[p].pc = "idle"

MutQuiet == \A m \in Mutators : mut[m].pc = "idle"
SynQuiet == \A p \in Syncers : syn[p].pc = "idle"

\* When a new call or request may start, per workload.
Free(when) ==
    CASE when = "always" -> TRUE
      [] when = "quiet" -> Quiet
      [] when = "few calls, quiet" -> Quiet /\ ops < TwoSyncOps
      [] when = "no call" -> MutQuiet
      [] when = "no request" -> SynQuiet

\* A TaskService call.
Call(when, m) ==
    \/ Free(when) /\ \E title \in NewTitles : CreateTask(m, title)
    \/ Free(when) /\ \E id \in TaskIds, updates \in Titles : UpdateTask(m, id, updates)
    \/ Free(when) /\ \E id \in TaskIds : DeleteTask(m, id)

Continue(m) ==
    \/ CreateEnqueue(m)
    \/ UpdateWrite(m) \/ UpdateEnqueue(m)
    \/ DeleteWrite(m) \/ DeleteEnqueue(m)
    \/ Return(m)

\* A POST /sync request.
Request(when, p) == Free(when) /\ \E probe \in Probes : CheckConnectivity(p, probe)

Run(p) ==
    \/ SyncRead(p)
    \/ \E n \in 0..batchSize : PeerRespond(p, n)
    \/ SendFail(p)
    \/ \E item \in ResponseItems : ProcessItem(p, item)
    \/ DeleteSynced(p)
    \/ HandleSyncError(p) \/ PersistRetry(p)
    \/ Respond(p)

\* One TaskService caller and one POST /sync request, overlapping at every await.
Next ==
    \/ Call("always", "m1") \/ Continue("m1")
    \/ Request("always", "s1") \/ Run("s1")

Spec == Init /\ [][Next]_vars

\* Complete, non-overlapping operations: a call or request starts only when
\* nothing else is in progress.
NextSeq ==
    \/ Call("quiet", "m1") \/ Continue("m1")
    \/ Request("quiet", "s1") \/ Run("s1")

SpecSeq == Init /\ [][NextSeq]_vars

\* Two POST /sync requests overlapping at every await; TaskService calls run
\* between requests.
NextTwoSync ==
    \/ Call("few calls, quiet", "m1") \/ Continue("m1")
    \/ \E p \in Syncers : Request("no call", p) \/ Run(p)

SpecTwoSync == Init /\ [][NextTwoSync]_vars

\* Two TaskService callers overlapping at every await; POST /sync requests run
\* between calls.
NextTwoMut ==
    \/ \E m \in Mutators : Call("no request", m) \/ Continue(m)
    \/ Request("quiet", "s1") \/ Run("s1")

SpecTwoMut == Init /\ [][NextTwoMut]_vars

\* resolveConflict applied to every pair of a local and a server version.
InitConflict ==
    /\ conflict \in [localTask : Versions("local"), serverTask : Versions("server"),
                      kept : {NoVersion}]
    /\ failedSends = [id \in {} |-> 0]
    /\ tasks = [t \in TaskIds |-> NoTask]
    /\ queue = {}
    /\ nextQ = 1
    /\ mut = [m \in Mutators |-> IdleMut]
    /\ syn = [p \in Syncers |-> IdleSyn]
    /\ ops = 0
    /\ confirmed = {}
    /\ recWrites = 0

NextConflict == ResolveConflict

SpecConflict == InitConflict /\ [][NextConflict]_vars

\* -------------------------------------------------------------------- claims
QueueIds == {e.id : e \in queue}
EntriesOf(t) == {e \in queue : e.task_id = t}
Appended == 1..(nextQ - 1)

\* C1: once every call and request is over, every Mutation Log entry ever
\* appended is either still in the log or was confirmed by the peer: no entry
\* disappears unconfirmed.
C1_NoEntryLost ==
    Quiet => \A id \in Appended : id \in QueueIds \/ id \in confirmed

\* C2: in every reachable state the record writes applied by createTask,
\* updateTask and deleteTask are matched one to one by log entries: no state
\* has a record write without its log entry.
C2_WriteAndAppendAtomic == recWrites = nextQ - 1

\* C3: after complete, non-overlapping operations a synced record has no log
\* entry, and a record with a log entry is pending or error.
C3_SyncedHasNoEntry ==
    Quiet => \A t \in TaskIds :
        /\ tasks[t].sync_status = "synced" => EntriesOf(t) = {}
        /\ EntriesOf(t) # {} => tasks[t].sync_status \in {"pending", "error"}

C3_Witness ==
    /\ Quiet
    /\ \E t \in TaskIds : tasks[t].sync_status = "synced" /\ tasks[t].server_id = ServerId
    /\ queue = {}
    /\ Cardinality(confirmed) >= 2

\* C4: with a mutation overlapping a sync() at statement level, no record ends
\* up synced with a live log entry, and no record ends up pending with every
\* log entry of it deleted.
C4_NoStaleStatus ==
    Quiet => \A t \in TaskIds :
        /\ ~(tasks[t].sync_status = "synced" /\ EntriesOf(t) # {})
        /\ ~(tasks[t].sync_status = "pending" /\ EntriesOf(t) = {})

\* C5: when a run returns, every entry it read that the peer did not confirm
\* (not yet sent when it vanished, or answered with a failure) is still in the
\* log.
C5_DeletedOnlyWhenConfirmed ==
    \A p \in Syncers :
        (syn[p].pc = "reply" /\ syn[p].http = "200") =>
            \A e \in SeqSet(syn[p].queueItems) : e.id \in confirmed \/ e.id \in QueueIds

C7_SingleRun == Cardinality({p \in Syncers : InRun(p)}) <= 1

\* C8: two overlapping runs never both send the same Mutation Log entry.
C8_NoDoubleSend ==
    \A p, q \in Syncers :
        (p # q /\ InRun(p) /\ InRun(q)) =>
            SeqSet(SentEntries(syn[p])) \cap SeqSet(SentEntries(syn[q])) = {}

\* C9: an entry whose retry count has passed maxRetries is not sent again, unless
\* a newer mutation of its record is in the log.
C9_ExhaustedNotResent ==
    \A p \in Syncers : InRun(p) =>
        \A e \in SeqSet(Batch(syn[p])) :
            \/ e.retry_count <= maxRetries
            \/ \E f \in SeqSet(syn[p].queueItems) :
                  f.task_id = e.task_id /\ f.created_at > e.created_at

\* C10: a request that entered sync() answers with the aggregate result, after
\* every batch of the queue it read was attempted, whatever sends failed.
C10_RunCompletes ==
    \A p \in Syncers :
        (syn[p].pc = "reply" /\ syn[p].http # "503") =>
            /\ syn[p].http = "200"
            /\ syn[p].i > Len(syn[p].queueItems)
            /\ SentEntries(syn[p]) = syn[p].queueItems

\* The first batch (two entries) failed to send, the second was still sent and
\* answered with a success.
C10_Witness ==
    \E p \in Syncers :
        /\ syn[p].pc = "reply" /\ syn[p].http = "200"
        /\ Len(syn[p].queueItems) = 3
        /\ Len(syn[p].errors) = 2
        /\ \A n \in 1..2 : syn[p].errors[n].error = NetworkError
        /\ syn[p].successCount = 1

\* C11: a sync() that reads an empty Mutation Log sends nothing (it goes from
\* the read straight to its return), changes neither table, and returns
\* success = true, 0 synced, 0 failed and no errors; this holds for every such
\* run, so also for a repeated one.
C11_EmptySyncNoOp ==
    [][\A p \in Syncers :
          (syn[p].pc = "sync" /\ syn'[p].pc # "sync" /\ queue = {}) =>
              /\ tasks' = tasks /\ queue' = queue /\ nextQ' = nextQ
              /\ syn'[p].pc = "reply" /\ syn'[p].http = "200"
              /\ syn'[p].queueItems = <<>>
              /\ SyncResult(syn'[p]) =
                    [success |-> TRUE, synced_items |-> 0, failed_items |-> 0,
                     errors |-> <<>>]]_vars

\* A run over an empty log that returns, after an earlier run emptied the log.
C11_Witness ==
    \E p \in Syncers :
        /\ syn[p].pc = "reply" /\ syn[p].http = "200"
        /\ syn[p].queueItems = <<>>
        /\ queue = {}
        /\ confirmed # {}
        /\ \E t \in TaskIds : tasks[t].exists

\* The record `id` as getTask would return it.
Live(rows, id) == rows[id].exists /\ ~rows[id].is_deleted

\* C12: when createTask returns, getTask of the new id gives a record that is
\* pending with no server_id; when sync() has handled a success item that
\* carries the peer-assigned server_id, getTask of that record gives it synced
\* with that server_id.
C12_RoundTrip ==
    [][/\ \A m \in Mutators :
            (mut[m].pc = "c_queue" /\ mut'[m].pc = "return") =>
                /\ Live(tasks', mut[m].id)
                /\ tasks'[mut[m].id].sync_status = "pending"
                /\ tasks'[mut[m].id].server_id = None
       /\ \A p \in Syncers :
            (/\ syn[p].pc = "delete" /\ syn'[p].pc # "delete"
             /\ syn[p].item.status = "success"
             /\ syn[p].item.server_id # None
             /\ Live(tasks', syn[p].item.client_id)) =>
                /\ tasks'[syn[p].item.client_id].sync_status = "synced"
                /\ tasks'[syn[p].item.client_id].server_id = syn[p].item.server_id]_vars

\* C13: a request whose health probe errored or timed out gets false from
\* checkConnectivity (it answers 503, not the 500 of a thrown error) and is
\* never inside sync(); a request that is in sync(), or answers with its
\* result, had its probe succeed.
C13_ConnectivityGate ==
    \A p \in Syncers :
        /\ syn[p].probe \in {"error", "timeout"} =>
              syn[p].pc = "reply" /\ syn[p].http = "503"
        /\ (syn[p].pc = "sync" \/ InRun(p) \/ (syn[p].pc = "reply" /\ syn[p].http = "200")) =>
              syn[p].probe = "ok"

\* The probe timed out while the log had entries to send: 503, nothing sent.
C13_Witness ==
    \E p \in Syncers :
        /\ syn[p].pc = "reply" /\ syn[p].http = "503"
        /\ syn[p].probe = "timeout"
        /\ queue # {}

\* C14: a call of updateTask or deleteTask for an id that has no live record
\* (no row, or a soft-deleted row) returns null / false and writes nothing: the
\* call changes neither tasks nor sync_queue.
C14_NotFoundNoEffect ==
    [][\A m \in Mutators :
          (/\ mut[m].pc = "idle" /\ mut'[m].pc # "idle"
           /\ mut'[m].op \in {"update", "delete"}
           /\ ~Live(tasks, mut'[m].id)) =>
              /\ mut'[m].pc = "return"
              /\ mut'[m].ret = IF mut'[m].op = "update" THEN "null" ELSE "false"
              /\ tasks' = tasks /\ queue' = queue /\ nextQ' = nextQ]_vars

\* updateTask on a soft-deleted record returns null while the log still holds
\* the entries of the earlier create and delete, and nothing more.
C14_Witness ==
    \E m \in Mutators :
        /\ mut[m].pc = "return" /\ mut[m].op = "update" /\ mut[m].ret = "null"
        /\ tasks[mut[m].id].exists /\ tasks[mut[m].id].is_deleted
        /\ Cardinality(queue) = 2
        /\ nextQ = 3

\* updated_at read as an instant: it parses.
IsInstant(updated_at) == updated_at.kind \in {"Date", "string"}

\* C15: resolveConflict returns one of its two arguments, fixed by their
\* updated_at alone: the local version when both updated_at are instants and
\* local >= server (so also when they are the same instant, whatever their
\* representation), the server version in every other case.
C15_LastWriteWins ==
    conflict.kept # NoVersion =>
        LET l == conflict.localTask.updated_at
            s == conflict.serverTask.updated_at
        IN IF IsInstant(l) /\ IsInstant(s) /\ l.ms >= s.ms
           THEN conflict.kept = conflict.localTask
           ELSE conflict.kept = conflict.serverTask

\* A tie: the same instant, as a Date locally and as a string from the server.
C15_Witness ==
    /\ conflict.kept = conflict.localTask
    /\ conflict.localTask.updated_at.kind = "Date"
    /\ conflict.serverTask.updated_at.kind = "string"
    /\ conflict.localTask.updated_at.ms = conflict.serverTask.updated_at.ms
    /\ conflict.localTask.updated_at.ms = 1

\* C16: when sync() has handled a success or conflict item that carries
\* resolved data, the record has the resolved business fields, is synced, and
\* has the server_id of the item if the item carries one.
C16_ResolvedFieldsApplied ==
    [][\A p \in Syncers :
          LET item == syn[p].item
          IN (/\ syn[p].pc = "delete" /\ syn'[p].pc # "delete"
              /\ item.resolved_data # None
              /\ tasks'[item.client_id].exists) =>
                 /\ tasks'[item.client_id].title = item.resolved_data
                 /\ tasks'[item.client_id].sync_status = "synced"
                 /\ item.server_id # None =>
                        tasks'[item.client_id].server_id = item.server_id]_vars

\* C17: when sync() handles a response item that is neither a success nor a
\* conflict with resolved data, the record becomes 'error', the Mutation Log
\* is left as it is (entry in place, retry count unchanged), and exactly one
\* error detail is added, with the record id, the operation of an entry of
\* that record in the batch, and the message.
C17_RejectedItem ==
    [][\A p \in Syncers :
          (syn[p].pc = "items" /\ syn'[p].failCount = syn[p].failCount + 1) =>
              /\ Len(syn'[p].errors) = Len(syn[p].errors) + 1
              /\ queue' = queue
              /\ LET detail == syn'[p].errors[Len(syn'[p].errors)]
                 IN /\ tasks'[detail.task_id].exists =>
                          tasks'[detail.task_id].sync_status = "error"
                    /\ detail.error \in {PeerRejected, "Unknown sync error"}
                    /\ \E e \in SeqSet(Batch(syn[p])) :
                          e.task_id = detail.task_id /\ e.operation = detail.operation]_vars

\* handleSyncError for the entry at hand has done its last write in this step.
HandledFailure(p) ==
    \/ syn[p].pc = "fail" /\ syn'[p] # syn[p] /\ syn'[p].pc # "retry"
    \/ syn[p].pc = "retry" /\ syn'[p] # syn[p]

C19_EveryEntryCounted ==
    \A p \in Syncers :
        (syn[p].pc = "reply" /\ syn[p].http = "200") =>
            LET result == SyncResult(syn[p])
            IN /\ result.synced_items + result.failed_items = Len(syn[p].queueItems)
               /\ Len(result.errors) = result.failed_items
               /\ result.success = (result.failed_items = 0)

\* C20: a record that is soft-deleted stays soft-deleted: no step of any
\* operation, overlapping or later, makes getTask return it again.
C20_DeletedStaysDeleted ==
    [][\A t \in TaskIds :
          (tasks[t].exists /\ tasks[t].is_deleted) => ~Live(tasks', t)]_vars

====
